---- MODULE Spec2Model ----
(***************************************************************************)
(* Nearest-station distance and population-weighted aggregation pipeline   *)
(* of the air-quality monitoring inequity analyses                         *)
(* (analyze_wustl_inequity.py, landscan_inequity_real_data.py,             *)
(* landscan_inequity_analysis.py).                                         *)
(*                                                                         *)
(* Numbers.  The scripts compute in float64.  The model computes in exact  *)
(* non-negative rationals [num, den] in lowest terms; den = 0 encodes the  *)
(* two special floats that the scripts meet: 1/0 is +inf (np.inf) and 0/0  *)
(* is NaN.  Coordinates are integers counting 1/CoordDen of a degree, and  *)
(* the inputs are restricted to configurations whose station-to-sample     *)
(* distances are whole numbers of that unit, so the square root is exact.  *)
(***************************************************************************)
EXTENDS Integers, Sequences, FiniteSets, TLC

(* ------------------------------ bounds -------------------------------- *)
MaxStations == 2
MaxSamples == 2
MaxEdges == 3
MaxFileSize == 3
MaxThreads == 2

(* ------------------------- program constants -------------------------- *)
DegToKm == 111
UnderservedKm == 50
PoorlyServedKm == 25

\* one coordinate unit is 1/CoordDen degree: 0.1 degree and 1/111 degree
\* (one kilometre) are both whole numbers of units
CoordDen == 5 * DegToKm

(* ------------------------- float64 arithmetic ------------------------- *)
RECURSIVE GCD(_, _)
GCD(a, b) == IF b = 0 THEN a ELSE GCD(b, a % b)

Rat(n, d) == LET g == GCD(n, d) IN [num |-> n \div g, den |-> d \div g]
R(n) == [num |-> n, den |-> 1]
NaN == [num |-> 0, den |-> 0]
Inf == [num |-> 1, den |-> 0]
Zero == R(0)
IsNaN(a) == a.den = 0 /\ a.num = 0

\* comparisons are false when either side is NaN, as in IEEE 754
RatLT(a, b) == ~IsNaN(a) /\ ~IsNaN(b) /\ a.num * b.den < b.num * a.den
RatLE(a, b) == ~IsNaN(a) /\ ~IsNaN(b) /\ a # Inf /\ a.num * b.den <= b.num * a.den
RatGT(a, b) == RatLT(b, a)
RatEq(a, b) == ~IsNaN(a) /\ ~IsNaN(b) /\ a = b

RatAdd(a, b) ==
    IF IsNaN(a) \/ IsNaN(b) THEN NaN
    ELSE IF a.den = 0 \/ b.den = 0 THEN Inf
    ELSE Rat(a.num * b.den + b.num * a.den, a.den * b.den)

RatMul(a, b) ==
    IF IsNaN(a) \/ IsNaN(b) THEN NaN
    ELSE IF a.den = 0 \/ b.den = 0
         THEN (IF a.num = 0 \/ b.num = 0 THEN NaN ELSE Inf)
    ELSE Rat(a.num * b.num, a.den * b.den)

\* x / 0 is inf and 0 / 0 is NaN for numpy floats (warnings are suppressed)
RatDiv(a, b) ==
    IF IsNaN(a) \/ IsNaN(b) THEN NaN
    ELSE IF b.num = 0 THEN (IF a.num = 0 THEN NaN ELSE Inf)
    ELSE IF b.den = 0 THEN (IF a.den = 0 THEN NaN ELSE Zero)
    ELSE IF a.den = 0 THEN Inf
    ELSE Rat(a.num * b.den, a.den * b.num)

\* a - b for b not above a
RatSub(a, b) ==
    IF IsNaN(a) \/ IsNaN(b) \/ (a.den = 0 /\ b.den = 0) THEN NaN
    ELSE IF a.den = 0 THEN Inf
    ELSE Rat(a.num * b.den - b.num * a.den, a.den * b.den)

\* digits of the whole number q >= 1, less one
RECURSIVE Digits(_)
Digits(q) == IF q < 10 THEN 0 ELSE 1 + Digits(q \div 10)

\* np.log10 to the precision of whole numbers: the largest whole number not
\* above log10(a) for a >= 1; log10(0) is -inf
NegInf == [num |-> -1, den |-> 0]
Log10(a) ==
    IF IsNaN(a) THEN NaN
    ELSE IF a.den = 0 THEN Inf
    ELSE IF a.num = 0 THEN NegInf
    ELSE IF a.num >= a.den THEN R(Digits(a.num \div a.den))
    ELSE R(0 - 1 - Digits((a.den - 1) \div a.num))

RECURSIVE SqrtSearch(_, _, _)
SqrtSearch(n, lo, hi) ==
    IF lo >= hi THEN lo
    ELSE LET mid == (lo + hi + 1) \div 2
         IN IF mid * mid <= n THEN SqrtSearch(n, mid, hi)
                              ELSE SqrtSearch(n, lo, mid - 1)

ISqrt(n) == SqrtSearch(n, 0, IF n < 40000 THEN n ELSE 40000)
IsSquare(n) == ISqrt(n) * ISqrt(n) = n

(* --------------------------- sequence helpers ------------------------- *)
RECURSIVE SumSeq(_)
SumSeq(s) == IF s = <<>> THEN Zero ELSE RatAdd(Head(s), SumSeq(Tail(s)))

RECURSIVE Select(_, _)
Select(s, mask) ==
    IF s = <<>> THEN <<>>
    ELSE (IF Head(mask) THEN <<Head(s)>> ELSE <<>>) \o Select(Tail(s), Tail(mask))

RECURSIVE Flatten(_)
Flatten(ss) == IF ss = <<>> THEN <<>> ELSE Head(ss) \o Flatten(Tail(ss))

\* the orders of n rows
Perms(n) == {p \in [1..n -> 1..n] : \A a, b \in 1..n : a # b => p[a] # p[b]}

(* ------------------------------- state -------------------------------- *)
VARIABLES
    analysis,                \* which script runs: "wustl" or "synthetic"
    stations,                \* stations.csv rows [long, lat, city]
    grid_df,                 \* populated grid cells [lon, lat, population, poverty]
    within,                  \* per grid cell, the district polygons it lies within
    cut_bins,                \* the bin edges handed to pd.cut for the distance tiers
    cut_labels,              \* the labels handed to pd.cut for the distance tiers
    pc,                      \* position in the script
    raised,                  \* the exception that ended the run, "" if none
    indices,                 \* tree.query: index of the nearest station (1-based)
    distance_to_station_km,  \* column distance_to_station_km
    nearest_station_city,    \* column nearest_station_city
    underserved, poorly_served, adequately_served,
    total_pop, underserved_pop, poorly_served_pop, adequately_served_pop,
    distance_category,       \* column distance_category
    poverty_normalized,      \* column poverty_normalized
    poverty_vulnerability,   \* column poverty_vulnerability
    poverty_threshold,       \* median of column poverty
    is_poor,                 \* column is_poor
    vulnerability_score,     \* column vulnerability_score
    vulnerability_normalized, \* column vulnerability_normalized
    log_poverty_vuln,        \* column log_poverty_vuln
    grid_with_states,        \* rows of the spatial join
    state_stats,             \* one record per state that has join rows
    india_states,            \* one record per state of the shapefile
    state_stats_sorted,      \* state_stats in the order of the exported ranking
    worst_states,            \* the rows of the report's ranking table
    remote,                  \* the bytes of the file behind the url
    headers,                 \* the headers of the response to requests.head
    num_threads,             \* parallel_download's num_threads
    files,                   \* the files on disk, by name
    file_size,               \* parallel_download's file_size
    futures,                 \* per chunk number, the submitted download_chunk call
    completed,               \* parallel_download's completed
    order,                   \* the chunk numbers in the order as_completed gave them
    success                  \* the value parallel_download returned

\* the variables by the part of the script that assigns them
inputVars == <<analysis, stations, grid_df, within, cut_bins, cut_labels>>
resolveVars == <<indices, distance_to_station_km, nearest_station_city>>
coverageVars == <<underserved, poorly_served, adequately_served,
                  total_pop, underserved_pop, poorly_served_pop, adequately_served_pop>>
povertyVars == <<poverty_normalized, poverty_vulnerability, poverty_threshold, is_poor>>
scoreVars == <<vulnerability_score, vulnerability_normalized, log_poverty_vuln>>
rankVars == <<state_stats_sorted, worst_states>>

downloadVars == <<remote, headers, num_threads, files, file_size, futures,
                  completed, order, success>>
pipelineVars == <<inputVars, resolveVars, coverageVars, povertyVars,
                  distance_category, scoreVars, grid_with_states, state_stats,
                  india_states, rankVars>>

vars == <<pc, raised, pipelineVars, downloadVars>>

(* ------------------------------- files -------------------------------- *)
\* output_constrained, and f"{output_file}.part{chunk_num}"
output_constrained == [base |-> "ind_ppp_2020_constrained.tif", part |-> -1]

\* mutant: every chunk is given the same part file
PartName_Shared(chunk_num) == [base |-> "ind_ppp_2020_constrained.tif", part |-> 0]

PartName(chunk_num) == [base |-> "ind_ppp_2020_constrained.tif", part |-> chunk_num]
FileNames == {output_constrained} \cup {PartName(i) : i \in 0..(MaxThreads - 1)}

NoFile == [exists |-> FALSE, data |-> <<>>]
File(data) == [exists |-> TRUE, data |-> data]

\* the downloader is not running
DownloadIdle ==
    /\ remote = <<>>
    /\ headers = [content_length |-> 0, accept_ranges |-> "none"]
    /\ num_threads = 0
    /\ files = [n \in FileNames |-> NoFile]
    /\ file_size = 0
    /\ futures = <<>>
    /\ completed = 0
    /\ order = <<>>
    /\ success = FALSE

(* ------------------------------ inputs -------------------------------- *)
Analyses == {"wustl", "synthetic"}

\* district polygons of in_district.shp and the state (stname) of each
Districts == <<"d1", "d2", "d3">>
StName(d) == IF d = "d3" THEN "B" ELSE "A"
\* the states in the order groupby and dissolve sort them
StateOrder == <<"A", "B">>
NoState == "NaN"

SeqsUpTo(S, lo, hi) == UNION {[1..n -> S] : n \in lo..hi}

Dist2(p, q) == (p.x - q.x) * (p.x - q.x) + (p.y - q.y) * (p.y - q.y)

\* every station-to-sample distance is a whole number of coordinate units
ExactGeometry(st, gd) ==
    \A i \in 1..Len(gd) : \A j \in 1..Len(st) :
        IsSquare(Dist2([x |-> gd[i].lon, y |-> gd[i].lat],
                       [x |-> st[j].long, y |-> st[j].lat]))

\* the tiers of the scripts
distance_bins == <<R(0), R(10), R(25), R(50), R(100), R(200), Inf>>
distance_labels == <<"<10km", "10-25km", "25-50km", "50-100km", "100-200km", ">200km">>

InitRun(Kinds, StationSeqs, SamplePts, Pops, Poverties, Matches, MaxCells, BinSeqs, LabelSeqs) ==
    /\ analysis \in Kinds
    /\ cut_bins \in BinSeqs
    /\ cut_labels \in LabelSeqs
    /\ stations \in StationSeqs
    /\ grid_df \in SeqsUpTo({[lon |-> p[1], lat |-> p[2], population |-> R(w),
                              poverty |-> R(q)] :
                                 p \in SamplePts, w \in Pops, q \in Poverties},
                            1, MaxCells)
    /\ ExactGeometry(stations, grid_df)
    /\ within \in [1..Len(grid_df) -> Matches]
    /\ pc = "loaded"
    /\ raised = ""
    /\ indices = <<>>
    /\ distance_to_station_km = <<>>
    /\ nearest_station_city = <<>>
    /\ underserved = <<>>
    /\ poorly_served = <<>>
    /\ adequately_served = <<>>
    /\ total_pop = NaN
    /\ underserved_pop = NaN
    /\ poorly_served_pop = NaN
    /\ adequately_served_pop = NaN
    /\ poverty_normalized = <<>>
    /\ poverty_vulnerability = <<>>
    /\ poverty_threshold = NaN
    /\ is_poor = <<>>
    /\ distance_category = <<>>
    /\ vulnerability_score = <<>>
    /\ vulnerability_normalized = <<>>
    /\ log_poverty_vuln = <<>>
    /\ grid_with_states = <<>>
    /\ state_stats = <<>>
    /\ india_states = <<>>
    /\ state_stats_sorted = <<>>
    /\ worst_states = <<>>
    /\ DownloadIdle

InitWith(Kinds, StationSeqs, SamplePts, Pops, Poverties, Matches, MaxCells) ==
    InitRun(Kinds, StationSeqs, SamplePts, Pops, Poverties, Matches, MaxCells,
            {distance_bins}, {distance_labels})

(* ---------------------- nearest-station distances --------------------- *)
\* mutant: the square root is left out
EuclidDeg_Squared(cell, st) ==
    Rat(Dist2([x |-> cell.lon, y |-> cell.lat],
              [x |-> st.long, y |-> st.lat]), CoordDen)

\* Euclidean distance in degrees between a grid cell and a station
EuclidDeg(cell, st) ==
    Rat(ISqrt(Dist2([x |-> cell.lon, y |-> cell.lat],
                    [x |-> st.long, y |-> st.lat])), CoordDen)

\* cKDTree.query(k=1): the stations at minimum distance from the cell.  Which
\* of several equidistant stations the tree reports depends on how the tree
\* was split, so the query may report any of them.
\* mutant: the distance to the station that comes first in the collection
QueryDistance_First(st, cell, n) == IF n = 0 THEN Inf ELSE EuclidDeg(cell, st[1])

\* the smallest distance from the cell to the first n stations of st
RECURSIVE QueryDistance(_, _, _)
QueryDistance(st, cell, n) ==
    IF n = 0 THEN Inf
    ELSE LET d == EuclidDeg(cell, st[n])
             best == QueryDistance(st, cell, n - 1)
         IN IF RatLT(d, best) THEN d ELSE best

BestDistance(cell, n) == QueryDistance(stations, cell, n)

\* the stations of st at that smallest distance
QueryNearest(st, cell) ==
    LET best == QueryDistance(st, cell, Len(st))
    IN {j \in 1..Len(st) : EuclidDeg(cell, st[j]) = best}

Nearest(cell) == QueryNearest(stations, cell)

\* mutant: the degree distance is reported as if it were kilometres
DistancesKm_Unscaled(d) == d

\* distances * 111
DistancesKm(d) == RatMul(d, R(DegToKm))

\* mutant: the city is read at the cell's own position, not at the index
\* that the query returned
NearestStationCity_ByPosition(idx) ==
    [i \in 1..Len(idx) |-> stations[IF i <= Len(stations) THEN i ELSE 1].city]

\* [stations.iloc[idx]['city'] for idx in indices]
NearestStationCity(idx) == [i \in 1..Len(idx) |-> stations[idx[i]].city]

ResolveDistances ==
    /\ pc = "loaded"
    /\ IF Len(stations) = 0
       THEN \* station_coords is np.array([]), of one dimension, and cKDTree
            \* raises ValueError("data must be of shape (n, m), ...").
            \* landscan_inequity_analysis.py catches it (except Exception),
            \* prints it and goes on to the maps.
            /\ pc' = IF analysis = "synthetic" THEN "fallback" ELSE "aborted"
            /\ raised' = IF analysis = "synthetic" THEN "" ELSE "ValueError"
            /\ UNCHANGED resolveVars
       ELSE \E idx \in [1..Len(grid_df) -> 1..Len(stations)] :
            /\ \A i \in 1..Len(grid_df) : idx[i] \in Nearest(grid_df[i])
            \* the same query point gets the same answer
            /\ \A i, k \in 1..Len(grid_df) :
                   (grid_df[i].lon = grid_df[k].lon /\ grid_df[i].lat = grid_df[k].lat)
                       => idx[i] = idx[k]
            /\ indices' = idx
            /\ distance_to_station_km' =
                   [i \in 1..Len(grid_df) |->
                       DistancesKm(EuclidDeg(grid_df[i], stations[idx[i]]))]
            /\ nearest_station_city' = NearestStationCity(idx)
            /\ pc' = "resolved"
            /\ raised' = raised
    /\ UNCHANGED <<downloadVars, inputVars, coverageVars, povertyVars, distance_category,
                   scoreVars, grid_with_states, state_stats, india_states, rankVars>>

(* --------------------------- coverage metrics ------------------------- *)
Underserved(d) == RatGT(d, R(UnderservedKm))

\* mutant: the upper end of the 25-50 km band is left out
PoorlyServed_Open(d) == RatGT(d, R(PoorlyServedKm)) /\ RatLT(d, R(UnderservedKm))

PoorlyServed(d) == RatGT(d, R(PoorlyServedKm)) /\ RatLE(d, R(UnderservedKm))
AdequatelyServed(d) == RatLE(d, R(PoorlyServedKm))

Population == [i \in 1..Len(grid_df) |-> grid_df[i].population]

\* df[mask]['population'].sum()
MaskedPopulation(mask) == SumSeq(Select(Population, mask))

CoverageMetrics ==
    /\ pc = "resolved"
    /\ underserved' = [i \in 1..Len(grid_df) |-> Underserved(distance_to_station_km[i])]
    /\ poorly_served' = [i \in 1..Len(grid_df) |-> PoorlyServed(distance_to_station_km[i])]
    /\ adequately_served' =
           [i \in 1..Len(grid_df) |-> AdequatelyServed(distance_to_station_km[i])]
    /\ total_pop' = SumSeq(Population)
    /\ underserved_pop' = MaskedPopulation(underserved')
    /\ poorly_served_pop' = MaskedPopulation(poorly_served')
    /\ adequately_served_pop' = MaskedPopulation(adequately_served')
    /\ pc' = "covered"
    /\ UNCHANGED <<downloadVars, inputVars, raised, resolveVars, povertyVars, distance_category,
                   scoreVars, grid_with_states, state_stats, india_states, rankVars>>

(* ------------------------ poverty-weighted analysis ------------------- *)
Poverty == [i \in 1..Len(grid_df) |-> grid_df[i].poverty]

\* Series.min() and Series.max() skip missing values
SeriesMin(x) ==
    LET ok == {i \in 1..Len(x) : ~IsNaN(x[i])}
    IN IF ok = {} THEN NaN
       ELSE x[CHOOSE i \in ok : \A k \in ok : RatLE(x[i], x[k])]

SeriesMax(x) ==
    LET ok == {i \in 1..Len(x) : ~IsNaN(x[i])}
    IN IF ok = {} THEN NaN
       ELSE x[CHOOSE i \in ok : \A k \in ok : RatLE(x[k], x[i])]

\* the r-th smallest value of x (r from 1), x without missing values
Ranked(x, r) ==
    x[CHOOSE i \in 1..Len(x) :
        /\ Cardinality({k \in 1..Len(x) : RatLT(x[k], x[i])}) < r
        /\ Cardinality({k \in 1..Len(x) : RatLE(x[k], x[i])}) >= r]

\* Series.median(): the middle value, or the mean of the two middle values
Median(x) ==
    LET v == Select(x, [i \in 1..Len(x) |-> ~IsNaN(x[i])])
        n == Len(v)
    IN IF n = 0 THEN NaN
       ELSE IF n % 2 = 1 THEN Ranked(v, (n + 1) \div 2)
       ELSE RatDiv(RatAdd(Ranked(v, n \div 2), Ranked(v, n \div 2 + 1)), R(2))

\* mutant: a value is scaled by the largest value only
PovertyNormalized_ByMax(x) ==
    [i \in 1..Len(x) |-> RatDiv(x[i], SeriesMax(x))]

\* (poverty - poverty.min()) / (poverty.max() - poverty.min())
PovertyNormalized(x) ==
    [i \in 1..Len(x) |->
        RatDiv(RatSub(x[i], SeriesMin(x)), RatSub(SeriesMax(x), SeriesMin(x)))]

\* population * poverty_normalized * distance_to_station_km
PovertyVulnerability(w, pn, d) ==
    [i \in 1..Len(w) |-> RatMul(RatMul(w[i], pn[i]), d[i])]

\* mutant: a cell at the median counts as poor
IsPoor_Inclusive(x, threshold) == [i \in 1..Len(x) |-> RatLE(threshold, x[i])]

\* poverty > poverty_threshold
IsPoor(x, threshold) == [i \in 1..Len(x) |-> RatGT(x[i], threshold)]

\* analyze_wustl_inequity.py only
PovertyAnalysis ==
    /\ pc = "covered"
    /\ analysis = "wustl"
    /\ poverty_normalized' = PovertyNormalized(Poverty)
    /\ poverty_vulnerability' =
           PovertyVulnerability(Population, poverty_normalized', distance_to_station_km)
    /\ poverty_threshold' = Median(Poverty)
    /\ is_poor' = IsPoor(Poverty, poverty_threshold')
    /\ pc' = "poverty"
    /\ UNCHANGED <<downloadVars, inputVars, raised, resolveVars, coverageVars, distance_category,
                   scoreVars, grid_with_states, state_stats, india_states, rankVars>>

(* ------------------------------- pd.cut ------------------------------- *)
\* bins.searchsorted(x, side='left'): how many bin edges lie strictly below x
SearchSortedLeft(bins, x) == Cardinality({k \in 1..Len(bins) : RatLT(bins[k], x)})

\* pd.cut(x, bins, labels) with the default right=True, include_lowest=False:
\* the value is missing (NaN) when no interval (bins[k], bins[k+1]] holds it
Cut(x, bins, labels) ==
    LET ids == SearchSortedLeft(bins, x)
    IN IF IsNaN(x) \/ ids = 0 \/ ids = Len(bins) THEN "NaN" ELSE labels[ids]

\* the checks pd.cut makes of its bins and labels before it assigns any value:
\*   "bins must increase monotonically."  when an edge is below the one before
\*   "Bin edges must be unique"           when an edge repeats, unless there are
\*                                        only two edges (duplicates='raise')
\*   "labels must be unique"              when a label repeats (ordered=True)
\*   "Bin labels must be one fewer than the number of bin edges"
CutRaises(bins, labels) ==
    \/ \E k \in 1..(Len(bins) - 1) : RatLT(bins[k + 1], bins[k])
    \/ /\ Len(bins) # 2
       /\ \E j, k \in 1..Len(bins) : j # k /\ bins[j] = bins[k]
    \/ \E j, k \in 1..Len(labels) : j # k /\ labels[j] = labels[k]
    \/ Len(labels) # Len(bins) - 1

Categorize ==
    /\ \/ pc = "poverty"
       \/ pc = "covered" /\ analysis = "synthetic"
       \/ pc = "fallback"
    /\ IF pc = "fallback"
       THEN \* grid_gdf has no column distance_to_station_km
            /\ pc' = "aborted"
            /\ raised' = "KeyError"
            /\ UNCHANGED distance_category
       ELSE IF CutRaises(cut_bins, cut_labels)
       THEN /\ pc' = "aborted"
            /\ raised' = "ValueError"
            /\ UNCHANGED distance_category
       ELSE /\ distance_category' =
                   [i \in 1..Len(grid_df) |->
                       Cut(distance_to_station_km[i], cut_bins, cut_labels)]
            /\ pc' = "categorized"
            /\ raised' = raised
    /\ UNCHANGED <<downloadVars, inputVars, resolveVars, coverageVars, povertyVars, scoreVars,
                   grid_with_states, state_stats, india_states, rankVars>>

(* -------------------------- vulnerability score ----------------------- *)
\* mutant: the distance is added to the population
VulnerabilityScore_Sum(w, d) == [i \in 1..Len(w) |-> RatAdd(w[i], d[i])]

\* population * distance_to_station_km
VulnerabilityScore(w, d) == [i \in 1..Len(w) |-> RatMul(w[i], d[i])]

\* np.log10(score + 1), for the colour scale of the map
LogScore(score) == [i \in 1..Len(score) |-> Log10(RatAdd(score[i], R(1)))]

Score ==
    /\ pc = "categorized"
    /\ IF analysis = "synthetic"
       THEN /\ vulnerability_score' = VulnerabilityScore(Population, distance_to_station_km)
            /\ vulnerability_normalized' = LogScore(vulnerability_score')
            /\ UNCHANGED log_poverty_vuln
       ELSE /\ log_poverty_vuln' = LogScore(poverty_vulnerability)
            /\ UNCHANGED <<vulnerability_score, vulnerability_normalized>>
    /\ pc' = "scored"
    /\ UNCHANGED <<downloadVars, inputVars, raised, resolveVars, coverageVars, povertyVars,
                   distance_category, grid_with_states, state_stats, india_states,
                   rankVars>>

(* ----------------------------- spatial join --------------------------- *)
\* the row of grid cell i in the joined table, for a polygon of state stname
JoinRow(i, stname) ==
    IF analysis = "synthetic"
    THEN [idx |-> i, stname |-> stname,
          population |-> grid_df[i].population,
          distance_to_station_km |-> distance_to_station_km[i],
          underserved |-> underserved[i],
          vulnerability_score |-> vulnerability_score[i],
          vulnerability_normalized |-> vulnerability_normalized[i]]
    ELSE [idx |-> i, stname |-> stname,
          population |-> grid_df[i].population,
          distance_to_station_km |-> distance_to_station_km[i],
          underserved |-> underserved[i]]

\* mutant: a cell within no polygon is given to the first polygon's state
JoinRows_Nearest(i) ==
    IF within[i] = {}
    THEN <<JoinRow(i, StName(Districts[1]))>>
    ELSE Select([k \in 1..Len(Districts) |-> JoinRow(i, StName(Districts[k]))],
                [k \in 1..Len(Districts) |-> Districts[k] \in within[i]])

\* gpd.sjoin(how='left', predicate='within'): one row per (cell, polygon) pair,
\* and one row with a missing stname for a cell that lies within no polygon
JoinRows(i) ==
    IF within[i] = {}
    THEN <<JoinRow(i, NoState)>>
    ELSE Select([k \in 1..Len(Districts) |-> JoinRow(i, StName(Districts[k]))],
                [k \in 1..Len(Districts) |-> Districts[k] \in within[i]])

SpatialJoin ==
    /\ pc = "scored"
    /\ grid_with_states' = Flatten([i \in 1..Len(grid_df) |-> JoinRows(i)])
    /\ pc' = "joined"
    /\ UNCHANGED <<downloadVars, inputVars, raised, resolveVars, coverageVars, povertyVars,
                   distance_category, scoreVars, state_stats, india_states,
                   rankVars>>

(* ------------------------- state-level statistics --------------------- *)
Column(rows, c) == [k \in 1..Len(rows) |-> rows[k][c]]

\* the group of one state: the rows of table T whose stname is that state
RowsOf(T, state) == SelectSeq(T, LAMBDA r : r.stname = state)

\* mutant: the rows are taken by position (iloc) instead of by label
LocRows_Positional(T, labels) == SubSeq(T, 1, Len(labels))

\* T.loc[labels]: every row of T carrying each label, so a label that the
\* join repeated yields all of its rows each time it is asked
LocRows(T, labels) ==
    Flatten([k \in 1..Len(labels) |-> SelectSeq(T, LAMBDA r : r.idx = labels[k])])

\* mutant: the plain mean, the weights ignored
Average_Plain(x, w) == RatDiv(SumSeq(x), R(Len(x)))

\* np.average(x, weights=w) for equally long x and w
Average(x, w) ==
    RatDiv(SumSeq([k \in 1..Len(x) |-> RatMul(x[k], w[k])]), SumSeq(w))

\* mutant: pct_underserved is left a fraction, not multiplied by 100
WeightedStats_Fraction(T, state) ==
    LET rows == RowsOf(T, state)
        loc == LocRows(T, Column(rows, "idx"))
        pop == SumSeq(Column(rows, "population"))
        under == SumSeq(Select(Column(loc, "population"), Column(loc, "underserved")))
    IN [state |-> state,
        population |-> pop,
        weighted_avg_distance_km |->
            Average(Column(rows, "distance_to_station_km"), Column(loc, "population")),
        underserved_population |-> under,
        pct_underserved |-> RatDiv(under, pop)]

\* the groupby('stname').agg(...) record of one state
\* (analyze_wustl_inequity.py and landscan_inequity_real_data.py)
WeightedStats(T, state) ==
    LET rows == RowsOf(T, state)
        loc == LocRows(T, Column(rows, "idx"))
        pop == SumSeq(Column(rows, "population"))
        under == SumSeq(Select(Column(loc, "population"), Column(loc, "underserved")))
    IN [state |-> state,
        population |-> pop,
        weighted_avg_distance_km |->
            Average(Column(rows, "distance_to_station_km"), Column(loc, "population")),
        underserved_population |-> under,
        pct_underserved |-> RatDiv(RatMul(R(100), under), pop)]

\* np.average raises when the weights are not as many as the values
AverageRaises(T, state) ==
    LET rows == RowsOf(T, state)
    IN Len(LocRows(T, Column(rows, "idx"))) # Len(rows)

\* mutant: the state total adds up the log-transformed scores
PlainStats_LogSum(T, state) ==
    LET rows == RowsOf(T, state)
        x == Column(rows, "distance_to_station_km")
    IN [state |-> state,
        population |-> SumSeq(Column(rows, "population")),
        avg_distance_km |-> RatDiv(SumSeq(x), R(Len(rows))),
        total_vulnerability |-> SumSeq(Column(rows, "vulnerability_normalized"))]

\* the groupby('stname').agg(...) record of one state
\* (landscan_inequity_analysis.py)
PlainStats(T, state) ==
    LET rows == RowsOf(T, state)
        x == Column(rows, "distance_to_station_km")
    IN [state |-> state,
        population |-> SumSeq(Column(rows, "population")),
        avg_distance_km |-> RatDiv(SumSeq(x), R(Len(rows))),
        total_vulnerability |-> SumSeq(Column(rows, "vulnerability_score"))]

\* groupby drops the rows whose key is missing and sorts the groups by key
GroupKeys(T) ==
    Select(StateOrder, [k \in 1..Len(StateOrder) |-> RowsOf(T, StateOrder[k]) # <<>>])

Raises(T, kind) ==
    kind = "wustl" /\ \E k \in 1..Len(GroupKeys(T)) : AverageRaises(T, GroupKeys(T)[k])

StateStats(T, kind) ==
    [k \in 1..Len(GroupKeys(T)) |->
        IF kind = "wustl" THEN WeightedStats(T, GroupKeys(T)[k])
                          ELSE PlainStats(T, GroupKeys(T)[k])]

Aggregate ==
    /\ pc = "joined"
    /\ IF Raises(grid_with_states, analysis)
       THEN /\ pc' = "crashed"
            /\ raised' = "TypeError"
            /\ UNCHANGED state_stats
       ELSE /\ state_stats' = StateStats(grid_with_states, analysis)
            /\ pc' = "aggregated"
            /\ raised' = raised
    /\ UNCHANGED <<downloadVars, inputVars, resolveVars, coverageVars, povertyVars,
                   distance_category, scoreVars, grid_with_states, india_states,
                   rankVars>>

(* ---------------------- merge with the shapefile ---------------------- *)
bins_dist == <<R(0), R(25), R(50), R(75), R(100), R(150), Inf>>
bins_dist_synthetic == <<R(0), R(25), R(50), R(75), R(100), R(150), R(300)>>
labels_dist == <<"<25km", "25-50km", "50-75km", "75-100km", "100-150km", ">150km">>

FillNa(a, v) == IF IsNaN(a) THEN v ELSE a

\* india.dissolve(by='stname').merge(state_stats, how='left'): the statistics of
\* a state without a state_stats row are missing
StatsRow(state) ==
    LET hit == SelectSeq(state_stats, LAMBDA r : r.state = state)
    IN IF hit # <<>> THEN hit[1]
       ELSE IF analysis = "wustl"
            THEN [state |-> "NaN", population |-> NaN,
                  weighted_avg_distance_km |-> NaN,
                  underserved_population |-> NaN, pct_underserved |-> NaN]
            ELSE [state |-> "NaN", population |-> NaN,
                  avg_distance_km |-> NaN, total_vulnerability |-> NaN]

MergedWeighted(state) ==
    LET r == StatsRow(state)
        avg == FillNa(r.weighted_avg_distance_km, Zero)
    IN [stname |-> state,
        state |-> r.state,
        population |-> r.population,
        weighted_avg_distance_km |-> avg,
        underserved_population |-> r.underserved_population,
        pct_underserved |-> FillNa(r.pct_underserved, Zero),
        distance_bins |-> Cut(avg, bins_dist, labels_dist)]

MergedPlain(state) ==
    LET r == StatsRow(state)
        avg == FillNa(r.avg_distance_km, Zero)
    IN [stname |-> state,
        state |-> r.state,
        population |-> r.population,
        avg_distance_km |-> avg,
        total_vulnerability |-> r.total_vulnerability,
        distance_bins |-> Cut(avg, bins_dist_synthetic, labels_dist),
        log_vulnerability |-> Log10(FillNa(r.total_vulnerability, R(1)))]

Merge ==
    /\ pc = "aggregated"
    /\ india_states' =
           [k \in 1..Len(StateOrder) |->
               IF analysis = "wustl" THEN MergedWeighted(StateOrder[k])
                                     ELSE MergedPlain(StateOrder[k])]
    /\ pc' = "done"
    /\ UNCHANGED <<downloadVars, inputVars, raised, resolveVars, coverageVars, povertyVars,
                   distance_category, scoreVars, grid_with_states, state_stats,
                   rankVars>>

(* ------------------------------ rankings ------------------------------ *)
\* the statistic that the exported ranking is sorted on
RankKey(r) == IF analysis = "wustl" THEN r.pct_underserved ELSE r.avg_distance_km

\* rows .head(15) of the wustl report, nlargest(10, ...) of the synthetic one
TopRows == IF analysis = "wustl" THEN 15 ELSE 10

HeadRows(rows, n) == SubSeq(rows, 1, IF Len(rows) < n THEN Len(rows) ELSE n)

\* the rows in an order p, by descending key
Descending(rows, p) ==
    \A a, b \in 1..Len(rows) :
        a < b => ~RatLT(RankKey(rows[p[a]]), RankKey(rows[p[b]]))

\* rows of equal key keep the order that they have in the table
Stable(rows, p) ==
    \A a, b \in 1..Len(rows) :
        (a < b /\ RankKey(rows[p[a]]) = RankKey(rows[p[b]])) => p[a] < p[b]

\* sort_values(key, ascending=False) sorts with numpy's default kind
\* 'quicksort', which is not stable: rows of equal key come out in an order
\* that depends on the numpy build and on the length of the table
SortOrders(rows) == {p \in Perms(Len(rows)) : Descending(rows, p)}

\* nlargest(n, key) keeps the first occurrences (keep='first', a stable sort)
NLargestOrder(rows) ==
    CHOOSE p \in Perms(Len(rows)) : Descending(rows, p) /\ Stable(rows, p)

Rank ==
    /\ pc = "done"
    /\ \E p \in SortOrders(state_stats) :
           /\ state_stats_sorted' = [k \in 1..Len(state_stats) |-> state_stats[p[k]]]
           /\ worst_states' =
                  IF analysis = "wustl"
                  THEN HeadRows(state_stats_sorted', TopRows)
                  ELSE HeadRows([k \in 1..Len(state_stats) |->
                                 state_stats[NLargestOrder(state_stats)[k]]], TopRows)
    /\ pc' = "ranked"
    /\ UNCHANGED <<downloadVars, inputVars, raised, resolveVars, coverageVars, povertyVars,
                   distance_category, scoreVars, grid_with_states, state_stats,
                   india_states>>

(* ------------------------ download_worldpop_fast ---------------------- *)
\* the remote file: a byte is known by its offset
RemoteFile(size) == [k \in 1..size |-> k - 1]

\* bytes start..end of the file
ByteRange(data, start, end) ==
    [k \in 1..(end - start + 1) |-> data[start + k]]

\* chunk_size = file_size // num_threads
ChunkSize(size, n) == size \div n

\* start and end of chunk i, as the submit loop computes them
ChunkStart(i, size, n) == i * ChunkSize(size, n)
ChunkEnd(i, size, n) ==
    IF i < n - 1 THEN ChunkStart(i, size, n) + ChunkSize(size, n) - 1
    ELSE size - 1

\* What the server may answer to GET with 'Range: bytes={start}-{end}':
\* 206 with the bytes asked for, 200 with the whole file (the Range header
\* ignored), or an error status.  'bytes=0--1', sent when end is below start,
\* is no valid range: the server ignores it (200) or refuses it (416).
Responses(start, end) ==
    IF start <= end
    THEN {[status_code |-> 206, content |-> ByteRange(remote, start, end)],
          [status_code |-> 200, content |-> remote],
          [status_code |-> 503, content |-> <<>>]}
    ELSE {[status_code |-> 200, content |-> remote],
          [status_code |-> 416, content |-> <<>>]}

\* mutant: one successful chunk is enough to merge
AllCompleted_Any(done, n) == done > 0

\* completed == num_threads
AllCompleted(done, n) == done = n

\* response.status_code in [200, 206]
Accepted(status_code) == status_code \in {200, 206}

\* requests.head, file_size, and the two early returns
HeadRequest ==
    /\ pc = "start"
    /\ file_size' = headers.content_length
    /\ IF file_size' = 0 \/ headers.accept_ranges # "bytes"
       THEN pc' = "returned" /\ success' = FALSE
       ELSE pc' = "submit" /\ success' = success
    /\ UNCHANGED <<raised, pipelineVars, remote, headers, num_threads, files,
                   futures, completed, order>>

\* the loop of executor.submit(download_chunk, url, start, end, i, output_file)
SubmitChunks ==
    /\ pc = "submit"
    /\ futures' = [i \in 0..(num_threads - 1) |->
                      [start |-> ChunkStart(i, file_size, num_threads),
                       end |-> ChunkEnd(i, file_size, num_threads),
                       state |-> "running",
                       response |-> [status_code |-> 0, content |-> <<>>],
                       result |-> FALSE]]
    /\ completed' = 0
    /\ pc' = "collect"
    /\ UNCHANGED <<raised, pipelineVars, remote, headers, num_threads, files,
                   file_size, order, success>>

\* download_chunk, first half: requests.get(url, headers=headers, stream=True)
\* answers or raises (connection error, timeout)
ChunkRequest(i) ==
    /\ pc \in {"collect", "unwind"}
    /\ i \in DOMAIN futures
    /\ futures[i].state = "running"
    /\ \/ \E r \in Responses(futures[i].start, futures[i].end) :
              futures' = [futures EXCEPT ![i].state = "responded", ![i].response = r]
       \/ futures' = [futures EXCEPT ![i].state = "raised"]
    /\ UNCHANGED <<pc, raised, pipelineVars, remote, headers, num_threads, files,
                   file_size, completed, order, success>>

\* download_chunk, second half: an accepted response is written to the part
\* file of the chunk number and (chunk_num, True) returned, any other status
\* returns (chunk_num, False)
ChunkWrite(i) ==
    /\ pc \in {"collect", "unwind"}
    /\ i \in DOMAIN futures
    /\ futures[i].state = "responded"
    /\ IF Accepted(futures[i].response.status_code)
       THEN /\ files' = [files EXCEPT ![PartName(i)] = File(futures[i].response.content)]
            /\ futures' = [futures EXCEPT ![i].state = "done", ![i].result = TRUE]
       ELSE /\ files' = files
            /\ futures' = [futures EXCEPT ![i].state = "done", ![i].result = FALSE]
    /\ UNCHANGED <<pc, raised, pipelineVars, remote, headers, num_threads,
                   file_size, completed, order, success>>

Collected == {order[k] : k \in 1..Len(order)}

\* one round of the loop over as_completed(futures): future.result() gives
\* (chunk_num, success), or raises what download_chunk raised
AsCompleted(i) ==
    /\ pc = "collect"
    /\ i \in DOMAIN futures
    /\ i \notin Collected
    /\ futures[i].state \in {"done", "raised"}
    /\ IF futures[i].state = "raised"
       THEN /\ pc' = "unwind"
            /\ raised' = "RequestException"
            /\ UNCHANGED <<completed, order>>
       ELSE /\ completed' = IF futures[i].result THEN completed + 1 ELSE completed
            /\ order' = Append(order, i)
            /\ pc' = IF Len(order') = num_threads THEN "merge" ELSE "collect"
            /\ raised' = raised
    /\ UNCHANGED <<pipelineVars, remote, headers, num_threads, files, file_size,
                   futures, success>>

\* the exception leaves the with-block: ThreadPoolExecutor.__exit__ waits for
\* the running workers, then the exception leaves parallel_download and, not
\* being caught, ends the script
ExecutorExit ==
    /\ pc = "unwind"
    /\ \A i \in DOMAIN futures : futures[i].state \in {"done", "raised"}
    /\ pc' = "exited"
    /\ UNCHANGED <<raised, pipelineVars, downloadVars>>

\* the merge loop from chunk i on: the part file is read, appended to the
\* output and removed; open() of a part file that is not there raises
RECURSIVE MergeFrom(_, _)
MergeFrom(i, fs) ==
    IF i = num_threads THEN [files |-> fs, ok |-> TRUE]
    ELSE IF ~fs[PartName(i)].exists THEN [files |-> fs, ok |-> FALSE]
    ELSE MergeFrom(i + 1,
             [fs EXCEPT ![output_constrained] =
                            File(fs[output_constrained].data \o fs[PartName(i)].data),
                        ![PartName(i)] = NoFile])

\* if completed == num_threads: open(output_file, 'wb') and the merge loop,
\* return True; else return False
MergeChunks ==
    /\ pc = "merge"
    /\ IF AllCompleted(completed, num_threads)
       THEN LET m == MergeFrom(0, [files EXCEPT ![output_constrained] = File(<<>>)])
            IN /\ files' = m.files
               /\ success' = m.ok
               /\ pc' = IF m.ok THEN "returned" ELSE "exited"
               /\ raised' = IF m.ok THEN raised ELSE "FileNotFoundError"
       ELSE /\ success' = FALSE
            /\ pc' = "returned"
            /\ UNCHANGED <<files, raised>>
    /\ UNCHANGED <<pipelineVars, remote, headers, num_threads, file_size,
                   futures, completed, order>>

\* __main__: if not success, the regular download is tried
MainScript ==
    /\ pc = "returned"
    /\ pc' = IF success THEN "finished" ELSE "regular"
    /\ UNCHANGED <<raised, pipelineVars, downloadVars>>

\* requests.get(url_constrained, stream=True) written to output_constrained,
\* unless the request raises
RegularDownload ==
    /\ pc = "regular"
    /\ \/ /\ files' = [files EXCEPT ![output_constrained] = File(remote)]
          /\ pc' = "finished"
          /\ raised' = raised
       \/ /\ pc' = "exited"
          /\ raised' = "RequestException"
          /\ files' = files
    /\ UNCHANGED <<pipelineVars, remote, headers, num_threads, file_size,
                   futures, completed, order, success>>

NextDownload ==
    \/ HeadRequest
    \/ SubmitChunks
    \/ \E i \in 0..(MaxThreads - 1) : ChunkRequest(i)
    \/ \E i \in 0..(MaxThreads - 1) : ChunkWrite(i)
    \/ \E i \in 0..(MaxThreads - 1) : AsCompleted(i)
    \/ ExecutorExit
    \/ MergeChunks
    \/ MainScript
    \/ RegularDownload

(* --------------------------- specifications --------------------------- *)
Next ==
    \/ ResolveDistances
    \/ CoverageMetrics
    \/ PovertyAnalysis
    \/ Categorize
    \/ Score
    \/ SpatialJoin
    \/ Aggregate
    \/ Merge
    \/ Rank

\* Coordinates are in units of 1/555 degree, so 5 units are one kilometre.
Station(long, lat, city) == [long |-> long, lat |-> lat, city |-> city]

\* stations and grid cells at corners and at the centre of a 30 km by 40 km
\* rectangle: sides of 150 and 200 units, diagonal 250, centre to corner 125
GeoStations == {Station(0, 0, "Delhi"), Station(150, 0, "Agra"),
                Station(75, 100, "Delhi"), Station(150, 200, "Agra")}
GeoCells == {<<0, 0>>, <<150, 200>>, <<75, 100>>}
\* grid cells 0, 10, 20, 25, 50, 111, 200 and 310 km east of the origin
LineCells == {<<0, 0>>, <<50, 0>>, <<100, 0>>, <<125, 0>>, <<250, 0>>,
              <<555, 0>>, <<1000, 0>>, <<1550, 0>>}
\* grid cells 20 km and 111 km east of the origin
AggCells == {<<100, 0>>, <<555, 0>>}
OneStation == {<<Station(0, 0, "Delhi")>>}

\* stations and grid cells in the plane
Init == InitWith(Analyses, SeqsUpTo(GeoStations, 0, MaxStations), GeoCells,
                 {50}, {1}, {{"d1"}}, MaxSamples)
Spec == Init /\ [][Next]_vars

\* one station, grid cells at the tier breakpoints and between them
InitTier == InitWith(Analyses, OneStation, LineCells, {50, 100}, {1}, {{"d3"}},
                     MaxSamples)
SpecTier == InitTier /\ [][Next]_vars

\* one station, grid cells of differing population joined to the states
InitAgg == InitWith(Analyses, OneStation, AggCells, {50, 100}, {1},
                    {{}, {"d1"}, {"d3"}, {"d1", "d2"}, {"d2", "d3"}}, MaxSamples)
SpecAgg == InitAgg /\ [][Next]_vars

\* one station, up to three grid cells that differ in poverty index
PovertyIndexes == {1, 2, 4}
InitPoverty == InitWith(Analyses, OneStation, AggCells, {50, 100}, PovertyIndexes,
                        {{"d1"}}, MaxSamples + 1)
SpecPoverty == InitPoverty /\ [][Next]_vars

\* one station, one grid cell, and every choice of up to MaxEdges bin edges
\* and up to MaxEdges labels for the distance tiers
EdgeValues == {R(0), R(25), R(50)}
LabelNames == {"near", "far"}
InitConfig == InitRun(Analyses, OneStation, AggCells, {50}, {1}, {{"d1"}}, 1,
                      SeqsUpTo(EdgeValues, 2, MaxEdges),
                      SeqsUpTo(LabelNames, 1, MaxEdges))
SpecConfig == InitConfig /\ [][Next]_vars

\* three stations, each at 0, 1 or 10 degrees east, grid cells at 0.4 and
\* 9 degrees east, and three tiers with breakpoints at 0, 50 and 100 km
ScenarioStations == <<Station(0, 0, "Delhi"), Station(555, 0, "Agra"),
                      Station(5550, 0, "Patna")>>
ScenarioCells == {<<222, 0>>, <<4995, 0>>}
scenario_bins == <<R(0), R(50), R(100), Inf>>
scenario_labels == <<"<50km", "50-100km", ">100km">>
InitScenario ==
    InitRun(Analyses,
            [1..3 -> {ScenarioStations[k] : k \in 1..3}],
            ScenarioCells, {50, 100}, {1}, {{"d1"}}, MaxSamples,
            {scenario_bins}, {scenario_labels})
SpecScenario == InitScenario /\ [][Next]_vars

\* the analysis scripts are not running
PipelineIdle ==
    /\ analysis = "download"
    /\ stations = <<>> /\ grid_df = <<>> /\ within = <<>>
    /\ cut_bins = <<>> /\ cut_labels = <<>>
    /\ indices = <<>> /\ distance_to_station_km = <<>> /\ nearest_station_city = <<>>
    /\ underserved = <<>> /\ poorly_served = <<>> /\ adequately_served = <<>>
    /\ total_pop = NaN /\ underserved_pop = NaN
    /\ poorly_served_pop = NaN /\ adequately_served_pop = NaN
    /\ poverty_normalized = <<>> /\ poverty_vulnerability = <<>>
    /\ poverty_threshold = NaN /\ is_poor = <<>>
    /\ distance_category = <<>>
    /\ vulnerability_score = <<>> /\ vulnerability_normalized = <<>>
    /\ log_poverty_vuln = <<>>
    /\ grid_with_states = <<>> /\ state_stats = <<>> /\ india_states = <<>>
    /\ state_stats_sorted = <<>> /\ worst_states = <<>>

\* what was in the output file before the run, if it was there
OldFile == File(<<99>>)

\* the downloader, for a remote file of up to MaxFileSize bytes, up to
\* MaxThreads threads, each answer the server may give to HEAD, and an output
\* file that is or is not there already
InitDownload ==
    /\ PipelineIdle
    /\ pc = "start"
    /\ raised = ""
    /\ remote \in {RemoteFile(n) : n \in 1..MaxFileSize}
    /\ headers \in {[content_length |-> c, accept_ranges |-> a] :
                       c \in {0, Len(remote)}, a \in {"bytes", "none"}}
    /\ num_threads \in 1..MaxThreads
    /\ files \in {[n \in FileNames |-> IF n = output_constrained THEN f ELSE NoFile] :
                     f \in {NoFile, OldFile}}
    /\ file_size = 0
    /\ futures = <<>>
    /\ completed = 0
    /\ order = <<>>
    /\ success = FALSE
SpecDownload == InitDownload /\ [][NextDownload]_vars

\* every thread of the pool and the main thread keep running
FairDownload == SpecDownload /\ WF_vars(NextDownload)

(* ------------------------------ claims -------------------------------- *)
Resolved == pc \notin {"loaded", "aborted", "fallback"}
Cells == 1..Len(grid_df)
StationIds == 1..Len(stations)

Abs(n) == IF n < 0 THEN 0 - n ELSE n

\* squared distance, in squared coordinate units, from cell i to station j
CellStation2(i, j) ==
    (grid_df[i].lon - stations[j].long) * (grid_df[i].lon - stations[j].long)
        + (grid_df[i].lat - stations[j].lat) * (grid_df[i].lat - stations[j].lat)

\* the whole numbers r of coordinate units with r * r = CellStation2(i, j):
\* the Euclidean distance lies between the larger leg and the sum of the legs
CellStationUnits(i, j) ==
    LET dx == Abs(grid_df[i].lon - stations[j].long)
        dy == Abs(grid_df[i].lat - stations[j].lat)
    IN {r \in (IF dx > dy THEN dx ELSE dy)..(dx + dy) : r * r = CellStation2(i, j)}

\* d kilometres are exactly 111 times r / CoordDen degrees
IsKmOfUnits(d, r) == d.den > 0 /\ d.num * CoordDen = 111 * r * d.den
\* d kilometres are at most 111 times r / CoordDen degrees
AtMostKmOfUnits(d, r) == d.den > 0 /\ d.num * CoordDen <= 111 * r * d.den

\* C1: once the distances are resolved, every cell's distance_to_station_km is
\* 111 times its Euclidean (lon, lat) distance to some station, and no station
\* is closer to the cell than that.
C1_NearestDistance ==
    Resolved =>
        \A i \in Cells :
            /\ \E j \in StationIds : \E r \in CellStationUnits(i, j) :
                   IsKmOfUnits(distance_to_station_km[i], r)
            /\ \A j \in StationIds : \E r \in CellStationUnits(i, j) :
                   AtMostKmOfUnits(distance_to_station_km[i], r)

\* a cell off both axes of its nearest station, with another station farther away
C1_Witness ==
    /\ pc = "resolved"
    /\ \E i \in Cells : \E j, k \in StationIds :
           /\ indices[i] = j
           /\ grid_df[i].lon # stations[j].long
           /\ grid_df[i].lat # stations[j].lat
           /\ CellStation2(i, j) < CellStation2(i, k)

\* C2: the resolved columns have one entry per cell, in cell order: entry i is
\* the distance from cell i to the station whose index the query returned for
\* cell i, that station is a nearest one, and nearest_station_city[i] is its city.
C2_OrderAndIdentity ==
    Resolved =>
        /\ Len(distance_to_station_km) = Len(grid_df)
        /\ Len(nearest_station_city) = Len(grid_df)
        /\ Len(indices) = Len(grid_df)
        /\ \A i \in Cells :
               /\ indices[i] \in StationIds
               /\ nearest_station_city[i] = stations[indices[i]].city
               /\ \E r \in CellStationUnits(i, indices[i]) :
                      IsKmOfUnits(distance_to_station_km[i], r)
               /\ \A j \in StationIds : CellStation2(i, indices[i]) <= CellStation2(i, j)

\* two cells whose nearest stations differ in index, city and distance
C2_Witness ==
    /\ pc = "resolved"
    /\ Len(grid_df) = 2
    /\ indices[1] = 2
    /\ indices[2] = 1
    /\ nearest_station_city[1] # nearest_station_city[2]
    /\ distance_to_station_km[1] # distance_to_station_km[2]

Covered == Resolved /\ pc # "resolved"
Categorized == Covered /\ pc \notin {"covered", "poverty"}
Aggregated == pc \in {"aggregated", "done", "ranked"}

RECURSIVE SetSum(_, _)
SetSum(S, f) ==
    IF S = {} THEN Zero
    ELSE LET x == CHOOSE y \in S : TRUE
         IN RatAdd(f[x], SetSum(S \ {x}, f))

LabelSet(labels) == {labels[k] : k \in 1..Len(labels)}

\* C3: every cell's distance is classified into a tier, a distance of exactly
\* 0 km into the lowest one, and every state's mean distance into a bin.
C3_EveryDistanceClassified ==
    /\ Categorized =>
           \A i \in Cells :
               /\ distance_category[i] \in LabelSet(distance_labels)
               /\ distance_to_station_km[i] = Zero
                      => distance_category[i] = distance_labels[1]
    /\ pc = "done" =>
           \A k \in 1..Len(india_states) :
               india_states[k].distance_bins \in LabelSet(labels_dist)

\* C4: a cell whose distance equals a breakpoint is in the tier that starts
\* at that breakpoint: 10 km is "10-25km", 25 km is "25-50km" and poorly
\* served, 50 km is "50-100km" and underserved, and so on.
C4_BreakpointStartsTier ==
    Categorized =>
        \A i \in Cells :
            /\ \A k \in 2..Len(distance_labels) :
                   distance_to_station_km[i] = distance_bins[k]
                       => distance_category[i] = distance_labels[k]
            /\ distance_to_station_km[i] = R(PoorlyServedKm) => poorly_served[i]
            /\ distance_to_station_km[i] = R(UnderservedKm) => underserved[i]

\* the cells that the spatial join puts in a state
Members(state) == {i \in Cells : \E d \in within[i] : StName(d) = state}
States == {StateOrder[k] : k \in 1..Len(StateOrder)}
BandSum(S, flags) == SetSum({i \in S : flags[i]}, Population)
BandCount(i) ==
    Cardinality({b \in {"a", "p", "u"} :
        \/ b = "a" /\ adequately_served[i]
        \/ b = "p" /\ poorly_served[i]
        \/ b = "u" /\ underserved[i]})

\* C5: every cell is in exactly one of the three bands; the national band
\* totals add up to total_pop, the sum of all cells' populations; and the
\* population reported for a state is the sum of its three band totals.
C5_BandsPartitionPopulation ==
    Covered =>
        /\ \A i \in Cells : BandCount(i) = 1
        /\ total_pop = SetSum(Cells, Population)
        /\ RatAdd(RatAdd(adequately_served_pop, poorly_served_pop), underserved_pop)
               = total_pop
        /\ Aggregated =>
               \A k \in 1..Len(state_stats) :
                   LET M == Members(state_stats[k].state)
                   IN state_stats[k].population =
                          RatAdd(RatAdd(BandSum(M, adequately_served),
                                        BandSum(M, poorly_served)),
                                 BandSum(M, underserved))

\* a cell at exactly 50 km beside a cell at exactly 25 km, of different populations
C5_Witness ==
    /\ pc = "done"
    /\ \E i, k \in Cells :
           /\ distance_to_station_km[i] = R(50)
           /\ distance_to_station_km[k] = R(25)
           /\ grid_df[i].population # grid_df[k].population

\* the mean distance that a state_stats record reports
MeanOf(r) == IF analysis = "wustl" THEN r.weighted_avg_distance_km ELSE r.avg_distance_km

WeightedDistance == [i \in Cells |-> RatMul(grid_df[i].population, distance_to_station_km[i])]

\* C6: every state_stats record reports the sum of its cells' populations
\* and the population-weighted mean of their distances, in every analysis.
C6_WeightedMean ==
    Aggregated =>
        \A k \in 1..Len(state_stats) :
            LET M == Members(state_stats[k].state)
            IN /\ state_stats[k].population = SetSum(M, Population)
               /\ RatMul(MeanOf(state_stats[k]), SetSum(M, Population))
                      = SetSum(M, WeightedDistance)

NumericFields ==
    IF analysis = "wustl"
    THEN {"population", "weighted_avg_distance_km", "underserved_population",
          "pct_underserved"}
    ELSE {"population", "avg_distance_km", "total_vulnerability"}

\* C7: a state without cells is reported with population 0 and mean
\* distance 0, and none of its statistics is left NaN.
C7_EmptyRegionZero ==
    pc = "done" =>
        \A k \in 1..Len(india_states) :
            Members(india_states[k].stname) = {} =>
                /\ india_states[k].population = Zero
                /\ (IF analysis = "wustl"
                    THEN india_states[k].weighted_avg_distance_km
                    ELSE india_states[k].avg_distance_km) = Zero
                /\ \A f \in NumericFields : ~IsNaN(india_states[k][f])

\* C8: in the analyses that report it, pct_underserved of a state is 100
\* times the population of its cells farther than 50 km over its population;
\* a state whose only cell has population 50 at 111 km reports a mean
\* distance of 111 km and 100 percent underserved.
C8_PctUnderserved ==
    (Aggregated /\ analysis = "wustl") =>
        \A k \in 1..Len(state_stats) :
            LET r == state_stats[k]
                M == Members(r.state)
                far == {i \in M : RatGT(distance_to_station_km[i], R(50))}
            IN /\ RatGT(SetSum(M, Population), Zero)
               /\ RatMul(r.pct_underserved, SetSum(M, Population))
                      = RatMul(R(100), SetSum(far, Population))
               /\ (\E i \in M : /\ M = {i}
                                /\ grid_df[i].population = R(50)
                                /\ distance_to_station_km[i] = R(111))
                      => /\ r.weighted_avg_distance_km = R(111)
                         /\ r.pct_underserved = R(100)

\* a state whose only cell has population 50 at 111 km, beside a state
\* with a nearer cell
C8_Witness ==
    /\ pc = "done"
    /\ analysis = "wustl"
    /\ Len(state_stats) = 2
    /\ \E i \in Cells : /\ Members("A") = {i}
                        /\ grid_df[i].population = R(50)
                        /\ distance_to_station_km[i] = R(111)
    /\ state_stats[2].pct_underserved = Zero

\* the (cell, polygon) pairs that the spatial join puts in a state
Pairs(state) == {p \in Cells \X {Districts[k] : k \in 1..Len(Districts)} :
                    p[2] \in within[p[1]] /\ StName(p[2]) = state}
PairPopulation(S) == SetSum(S, [p \in S |-> grid_df[p[1]].population])
Matched(T) == SelectSeq(T, LAMBDA r : r.stname # NoState)

\* C9: a cell within no polygon is counted in the national total and band
\* totals, and in no state: the state statistics are those of the joined
\* table without its unmatched rows, and no state is made for them.  The
\* run does not fail because of unmatched cells.
C9_UnmatchedCells ==
    /\ Covered =>
           /\ total_pop = SetSum(Cells, Population)
           /\ underserved_pop = BandSum(Cells, underserved)
           /\ poorly_served_pop = BandSum(Cells, poorly_served)
           /\ adequately_served_pop = BandSum(Cells, adequately_served)
    /\ Aggregated =>
           /\ state_stats = StateStats(Matched(grid_with_states), analysis)
           /\ \A k \in 1..Len(state_stats) :
                  /\ state_stats[k].state \in States
                  /\ state_stats[k].population = PairPopulation(Pairs(state_stats[k].state))
    /\ pc = "crashed" => \E i \in Cells : Cardinality(within[i]) > 1

\* a cell within no polygon beside a cell within one: the states' populations
\* add up to less than the national total
C9_Witness ==
    /\ pc = "done"
    /\ \E i, k \in Cells : within[i] = {} /\ within[k] # {}
    /\ RatLT(SumSeq(Column(state_stats, "population")), total_pop)

\* the joined table of the cells taken in the order p
Permuted(T, p) ==
    Flatten([k \in 1..Len(p) |-> SelectSeq(T, LAMBDA r : r.idx = p[k])])

\* C10: the state statistics, and whether the aggregation fails, are the
\* same for every order of the cells.
C10_PermutationInvariant ==
    /\ Aggregated =>
           \A p \in Perms(Len(grid_df)) :
               /\ ~Raises(Permuted(grid_with_states, p), analysis)
               /\ StateStats(Permuted(grid_with_states, p), analysis) = state_stats
    /\ pc = "crashed" =>
           \A p \in Perms(Len(grid_df)) : Raises(Permuted(grid_with_states, p), analysis)

\* two cells of one state that differ in population and in distance
C10_Witness ==
    /\ pc = "done"
    /\ analysis = "wustl"
    /\ \E i, k \in Members("A") :
           /\ RatLT(grid_df[i].population, grid_df[k].population)
           /\ RatLT(distance_to_station_km[i], distance_to_station_km[k])
           /\ i < k

\* C11: with no stations the run is aborted where the index is built, by an
\* error that names the empty station set, before any distance, tier or
\* score exists; and no cell ever has an infinite or undefined distance.
C11_EmptyFacilityError ==
    /\ Len(stations) = 0 =>
           /\ pc \in {"loaded", "aborted"}
           /\ pc = "aborted" => raised = "EmptyFacilitySetError"
           /\ distance_to_station_km = <<>>
           /\ distance_category = <<>>
           /\ vulnerability_score = <<>>
           /\ poverty_vulnerability = <<>>
    /\ \A i \in 1..Len(distance_to_station_km) : distance_to_station_km[i].den > 0

PovertyDone == analysis = "wustl" /\ Covered /\ pc # "covered"
UniformPoverty == \A i, k \in Cells : grid_df[i].poverty = grid_df[k].poverty

\* C12: when all cells have the same poverty value, poverty_normalized and
\* poverty_vulnerability are 0 for every cell, and none of them is NaN.
C12_UniformPovertyZero ==
    (PovertyDone /\ UniformPoverty) =>
        \A i \in Cells :
            /\ poverty_normalized[i] = Zero
            /\ poverty_vulnerability[i] = Zero

\* the poverty indexes of the cells are whole numbers
PovertyOf(i) == grid_df[i].poverty.num
LowestPoverty == CHOOSE v \in {PovertyOf(i) : i \in Cells} : \A k \in Cells : v <= PovertyOf(k)
HighestPoverty == CHOOSE v \in {PovertyOf(i) : i \in Cells} : \A k \in Cells : PovertyOf(k) <= v

\* C13: when the cells have at least two distinct poverty values,
\* poverty_normalized is (poverty - lowest) / (highest - lowest): it lies in
\* [0, 1], is 0 for the lowest and 1 for the highest poverty, and
\* poverty_vulnerability is population * poverty_normalized * distance.
C13_MinMaxScaling ==
    (PovertyDone /\ ~UniformPoverty) =>
        \A i \in Cells :
            LET pn == poverty_normalized[i]
            IN /\ pn.den > 0
               /\ pn.num * (HighestPoverty - LowestPoverty)
                      = (PovertyOf(i) - LowestPoverty) * pn.den
               /\ 0 <= pn.num /\ pn.num <= pn.den
               /\ PovertyOf(i) = LowestPoverty => pn = Zero
               /\ PovertyOf(i) = HighestPoverty => pn = R(1)
               /\ poverty_vulnerability[i] =
                      RatMul(RatMul(grid_df[i].population, pn), distance_to_station_km[i])

\* three cells of three poverty values: one is scaled strictly between 0 and 1
C13_Witness ==
    /\ pc = "poverty"
    /\ Len(grid_df) = 3
    /\ \E i \in Cells :
           /\ RatLT(Zero, poverty_normalized[i])
           /\ RatLT(poverty_normalized[i], R(1))
           /\ RatLT(Zero, poverty_vulnerability[i])

\* how many cells have a poverty index below, and above, the value m
Below(m) == Cardinality({k \in Cells : RatLT(grid_df[k].poverty, m)})
Above(m) == Cardinality({k \in Cells : RatGT(grid_df[k].poverty, m)})

\* m is the median of the cells' poverty indexes: a cell's value with at
\* most half of the cells on either side of it, or else the midpoint
\* between the two values that split the cells into halves
IsMedian(m) ==
    \/ /\ \E k \in Cells : grid_df[k].poverty = m
       /\ 2 * Below(m) < Len(grid_df)
       /\ 2 * Above(m) < Len(grid_df)
    \/ \E a, b \in Cells :
           /\ PovertyOf(a) <= PovertyOf(b)
           /\ 2 * Cardinality({k \in Cells : PovertyOf(k) <= PovertyOf(a)}) = Len(grid_df)
           /\ 2 * Cardinality({k \in Cells : PovertyOf(k) >= PovertyOf(b)}) = Len(grid_df)
           /\ m.den > 0
           /\ 2 * m.num = (PovertyOf(a) + PovertyOf(b)) * m.den

\* C16: poverty_threshold is the median of the raw poverty values of all
\* cells of the run, and is_poor holds for exactly the cells whose raw
\* poverty value is strictly greater than it.
C16_HighPovertyAboveMedian ==
    PovertyDone =>
        /\ IsMedian(poverty_threshold)
        /\ \A i \in Cells :
               is_poor[i] <=> PovertyOf(i) * poverty_threshold.den > poverty_threshold.num

\* three cells, one at the median and not poor, one above it and poor
C16_Witness ==
    /\ pc = "poverty"
    /\ Len(grid_df) = 3
    /\ \E i, k \in Cells :
           /\ grid_df[i].poverty = poverty_threshold
           /\ ~is_poor[i]
           /\ is_poor[k]

ScoreDone == analysis = "synthetic" /\ Categorized /\ pc # "categorized"

\* C14: vulnerability_score of every cell is its population times its
\* distance, so it is 0 for a cell at distance 0, and the score of a
\* population of 0 is 0 at every distance.
C14_BasicScore ==
    ScoreDone =>
        \A i \in Cells :
            LET vs == vulnerability_score[i]
                d == distance_to_station_km[i]
            IN /\ vs.den > 0
               /\ vs.num * d.den = grid_df[i].population.num * d.num * vs.den
               /\ d = Zero => vs = Zero
               /\ VulnerabilityScore(<<Zero>>, <<d>>) = <<Zero>>

\* a cell at distance 0 beside a cell farther away
C14_Witness ==
    /\ pc = "scored"
    /\ analysis = "synthetic"
    /\ \E i, k \in Cells :
           /\ distance_to_station_km[i] = Zero
           /\ vulnerability_score[i] = Zero
           /\ RatGT(vulnerability_score[k], Zero)

\* cell i is not above cell k in population, in distance and in poverty
NotAbove(i, k) ==
    /\ RatLE(grid_df[i].population, grid_df[k].population)
    /\ RatLE(distance_to_station_km[i], distance_to_station_km[k])
    /\ RatLE(grid_df[i].poverty, grid_df[k].poverty)

\* C15: every vulnerability score is a number not below 0, and of two cells
\* of a run the one that is not above the other in population, distance and
\* (for the poverty-weighted score) poverty has the score that is not above
\* the other's.
C15_ScoresMonotone ==
    /\ PovertyDone =>
           \A i, k \in Cells :
               /\ RatLE(Zero, poverty_vulnerability[i])
               /\ NotAbove(i, k) =>
                      RatLE(poverty_vulnerability[i], poverty_vulnerability[k])
    /\ ScoreDone =>
           \A i, k \in Cells :
               /\ RatLE(Zero, vulnerability_score[i])
               /\ (/\ RatLE(grid_df[i].population, grid_df[k].population)
                   /\ RatLE(distance_to_station_km[i], distance_to_station_km[k]))
                      => RatLE(vulnerability_score[i], vulnerability_score[k])

PairScore(S) == SetSum(S, [p \in S |-> WeightedDistance[p[1]]])
PairLogScore(S) ==
    SetSum(S, [p \in S |-> Log10(RatAdd(WeightedDistance[p[1]], R(1)))])

StatePos(state) == CHOOSE k \in 1..Len(StateOrder) : StateOrder[k] = state

\* the rows are by descending key, rows of equal key by state name
RankedByKeyThenName(rows) ==
    \A a, b \in 1..Len(rows) :
        a < b =>
            \/ RatGT(RankKey(rows[a]), RankKey(rows[b]))
            \/ /\ RankKey(rows[a]) = RankKey(rows[b])
               /\ StatePos(rows[a].state) < StatePos(rows[b].state)

\* C18: the exported ranking and the report's table hold the rows of
\* state_stats by descending statistic, and states of equal statistic
\* in the lexicographic order of their names.
C18_RankingDeterministic ==
    pc = "ranked" =>
        /\ Len(state_stats_sorted) = Len(state_stats)
        /\ \A k \in 1..Len(state_stats) :
               \E j \in 1..Len(state_stats) : state_stats_sorted[j] = state_stats[k]
        /\ RankedByKeyThenName(state_stats_sorted)
        /\ RankedByKeyThenName(worst_states)

\* C19: the station reported for a cell is the one of lowest index among
\* the stations at the cell's minimum distance, and cells at the same
\* coordinates are given the same station.
C19_TieLowestIndex ==
    Resolved =>
        /\ \A i \in Cells : \A j \in StationIds :
               j < indices[i] => CellStation2(i, j) > CellStation2(i, indices[i])
        /\ \A i, k \in Cells :
               (grid_df[i].lon = grid_df[k].lon /\ grid_df[i].lat = grid_df[k].lat)
                   => indices[i] = indices[k]

\* the stations in the order q
Reordered(q) == [k \in 1..Len(stations) |-> stations[q[k]]]

\* C20: for every order of the stations, the query gives every cell the
\* distance that it has in this run, and the station that it has in this run
\* unless two or more stations are at the cell's minimum distance.
C20_StationOrderInvariant ==
    pc = "resolved" =>
        \A q \in Perms(Len(stations)) : \A i \in Cells :
            /\ DistancesKm(QueryDistance(Reordered(q), grid_df[i], Len(stations)))
                   = distance_to_station_km[i]
            /\ \A j \in QueryNearest(Reordered(q), grid_df[i]) :
                   \/ q[j] = indices[i]
                   \/ Cardinality({n \in StationIds :
                          CellStation2(i, n) = CellStation2(i, indices[i])}) >= 2

\* two stations: one cell is nearer to the second station, and one cell is
\* as far from the one as from the other
C20_Witness ==
    /\ pc = "resolved"
    /\ Len(stations) = 2
    /\ \E i, k \in Cells :
           /\ CellStation2(i, 2) < CellStation2(i, 1)
           /\ CellStation2(k, 1) = CellStation2(k, 2)
           /\ stations[1] # stations[2]

\* the classifier has been called
CutCalled ==
    /\ pc \notin {"loaded", "resolved", "covered", "poverty", "fallback"}
    /\ raised # "KeyError"
    /\ Len(stations) > 0

StrictlyIncreasing(b) == \A k \in 1..(Len(b) - 1) : RatLT(b[k], b[k + 1])

PartRows(S, state) ==
    SelectSeq(grid_with_states, LAMBDA r : r.stname = state /\ r.idx \in S)

Accumulate(S, state) ==
    LET rows == PartRows(S, state)
    IN [w |-> SumSeq(Column(rows, "population")),
        wd |-> SumSeq([k \in 1..Len(rows) |->
                         RatMul(rows[k].population, rows[k].distance_to_station_km)]),
        under |-> SumSeq(Select(Column(rows, "population"),
                                Column(rows, "underserved")))]

MergeAccumulators(a, b) ==
    [w |-> RatAdd(a.w, b.w), wd |-> RatAdd(a.wd, b.wd),
     under |-> RatAdd(a.under, b.under)]

FromAccumulator(state, a) ==
    [state |-> state,
     population |-> a.w,
     weighted_avg_distance_km |-> RatDiv(a.wd, a.w),
     underserved_population |-> a.under,
     pct_underserved |-> RatDiv(RatMul(R(100), a.under), a.w)]

\* C22: for every split of the grid cells into two parts, accumulating each
\* part per state and adding the accumulators gives each state the same
\* population, weighted mean distance, underserved population and underserved
\* percentage as the single pass over all cells (exact arithmetic).
C22_PartitionedAggregation ==
    (Aggregated /\ analysis = "wustl")
        => \A S \in SUBSET Cells : \A k \in 1..Len(state_stats) :
               state_stats[k] =
                   FromAccumulator(state_stats[k].state,
                       MergeAccumulators(Accumulate(S, state_stats[k].state),
                                         Accumulate(Cells \ S, state_stats[k].state)))

\* a state of two cells that differ in weight and in distance, one of them
\* underserved, so that a split puts them in different parts
C22_Witness ==
    /\ Aggregated /\ analysis = "wustl"
    /\ \E k \in 1..Len(state_stats) : \E i, j \in Members(state_stats[k].state) :
           /\ grid_df[i].population # grid_df[j].population
           /\ distance_to_station_km[i] # distance_to_station_km[j]
           /\ underserved[i] /\ ~underserved[j]
           /\ Len(PartRows({i}, state_stats[k].state)) = 1
           /\ Len(PartRows(Cells \ {i}, state_stats[k].state)) = 1

\* the run is on the three stations and the two cells of the scenario
Scenario ==
    /\ stations = ScenarioStations
    /\ Len(grid_df) = 2
    /\ grid_df[1].lon = 222 /\ grid_df[1].lat = 0 /\ grid_df[1].population = R(100)
    /\ grid_df[2].lon = 4995 /\ grid_df[2].lat = 0 /\ grid_df[2].population = R(50)

\* C23: with stations at (0,0), (1,0) and (10,0) degrees and grid cells at
\* (0.4,0) of population 100 and (9,0) of population 50, the first cell's
\* nearest station is the one at (0,0), 44.4 km away, and the second cell's the
\* one at (10,0), 111 km away; with tiers breaking at 0, 50 and 100 km the
\* cells are in "<50km" and ">100km"; population times distance is 4440 and 5550.
C23_Scenario ==
    Scenario =>
        /\ Resolved => /\ indices = <<1, 3>>
                       /\ distance_to_station_km = <<Rat(444, 10), R(111)>>
                       /\ nearest_station_city = <<"Delhi", "Patna">>
        /\ Categorized => distance_category = <<"<50km", ">100km">>
        /\ (ScoreDone /\ analysis = "synthetic")
               => vulnerability_score = <<R(4440), R(5550)>>

C23_Witness == Scenario /\ ScoreDone /\ analysis = "synthetic"

\* the state-level aggregation has been attempted
AggregationRan == pc \in {"aggregated", "done", "ranked", "crashed"}

\* the join rows that add cell i's population to a state
CountedRows(i) ==
    {r \in 1..Len(grid_with_states) :
        grid_with_states[r].idx = i /\ grid_with_states[r].stname # NoState}

\* C30: the aggregation completes with every cell's population counted in at
\* most one state, so the state populations add up to no more than the
\* national total, also when a cell lies within more than one polygon.
C30_CountedAtMostOnce ==
    AggregationRan
        => /\ pc # "crashed"
           /\ \A i \in Cells : Cardinality(CountedRows(i)) <= 1
           /\ RatLE(SumSeq(Column(state_stats, "population")), total_pop)

\* the chunks have been submitted
Submitted == futures # <<>>
Chunks == DOMAIN futures
Bytes(i) == futures[i].start..futures[i].end

\* C24: the byte ranges of the chunks 0..num_threads-1 are each non-empty,
\* pairwise disjoint, and together cover exactly the bytes 0..file_size-1,
\* also when file_size is below num_threads or no multiple of it.
C24_ChunkRangesPartition ==
    Submitted
        => /\ \A i \in Chunks : futures[i].start <= futures[i].end
           /\ \A i, j \in Chunks : i # j => Bytes(i) \cap Bytes(j) = {}
           /\ UNION {Bytes(i) : i \in Chunks} = 0..(file_size - 1)

\* the chunk reported success: download_chunk returned (chunk_num, True)
ReportedSuccess(i) == futures[i].state = "done" /\ futures[i].result
ReportedFailure(i) == futures[i].state = "done" /\ ~futures[i].result

\* C25: parallel_download returns True only if every chunk reported success,
\* and returns False if any chunk reported failure; the output file is
\* written by parallel_download only when every chunk reported success, so a
\* failed call leaves an output file that was there before as it was.
C25_AllOrNothing ==
    /\ [](pc = "returned"
            => /\ success => (Submitted /\ \A i \in Chunks : ReportedSuccess(i))
               /\ (\E i \in Chunks : ReportedFailure(i)) => ~success)
    /\ [][(files'[output_constrained] # files[output_constrained] /\ pc # "regular")
              => (pc = "merge" /\ \A i \in Chunks : ReportedSuccess(i))]_vars

\* a call that returned False after one chunk succeeded and one failed, with
\* the earlier output file still in place
C25_Witness ==
    /\ pc = "returned" /\ ~success
    /\ \E i, j \in Chunks : ReportedSuccess(i) /\ ReportedFailure(j)
    /\ files[output_constrained] = OldFile

\* the contents of the accepted responses, in ascending chunk number
AscendingContents ==
    Flatten([k \in 1..num_threads |-> futures[k - 1].response.content])

\* C26: whatever the interleaving of the workers and the order in which they
\* finish, no two chunks share a part file, a part file holds what the worker
\* of its own chunk number wrote, and the merged output is the part files
\* joined in ascending chunk number.
C26_OwnPartFileAscendingMerge ==
    /\ \A i, j \in Chunks : i # j => PartName(i) # PartName(j)
    /\ \A i \in Chunks :
           files[PartName(i)].exists
               => /\ ReportedSuccess(i)
                  /\ files[PartName(i)].data = futures[i].response.content
    /\ (pc = "returned" /\ success)
           => files[output_constrained] = File(AscendingContents)

\* the chunks finished in descending order and were merged
C26_Witness ==
    /\ pc = "returned" /\ success
    /\ order = <<1, 0>>
    /\ futures[0].response.content # futures[1].response.content

\* C27: whenever parallel_download returns True, the output file holds
\* exactly the bytes 0..file_size-1 of the remote file, each once, whichever
\* of the statuses 200 and 206 each chunk was answered with.
C27_OutputIsRemoteFile ==
    (pc = "returned" /\ success)
        => /\ file_size = Len(remote)
           /\ files[output_constrained] = File(remote)

\* C28: after parallel_download has returned, with True or with False, none
\* of the part files is left on disk.
C28_NoPartFileRemains ==
    pc = "returned" => \A n \in FileNames \ {output_constrained} : ~files[n].exists

\* the parallel download has not succeeded
ParallelFailed ==
    \/ pc = "returned" /\ ~success
    \/ \E i \in Chunks : futures[i].state = "raised"

\* C29: whenever the parallel download does not succeed (no file size, no
\* range requests, a chunk answered with another status than 200 or 206, or
\* a chunk request that raises), the script eventually starts the regular
\* download.
C29_FallsBackToRegular == ParallelFailed ~> (pc = "regular")

====
